---------------------------- MODULE Spec2Model ----------------------------
(***************************************************************************)
(* Model of the toy compiler front end: the lexer (src/src/lexer.rs) and   *)
(* the parser (src/src/parser.rs).                                         *)
(*                                                                         *)
(* A character is a one-character string, a source text is a sequence of   *)
(* characters.  The Peekable<Chars> iterator over the text is the pair     *)
(* (input, pos): pos characters have been consumed, peek() is input[pos+1].*)
(***************************************************************************)
EXTENDS Integers, Sequences, FiniteSets

VARIABLES input, pos, output, lexResult, tokens, current, exprs, parseResult

vars == <<input, pos, output, lexResult, tokens, current, exprs, parseResult>>
lexVars == <<input, pos, output, lexResult>>
parseVars == <<tokens, current, exprs, parseResult>>

(***************************************************************************)
(* Bounds of the model.                                                    *)
(***************************************************************************)
\* largest number of fragments concatenated into a generated source text
MaxFragments == 4
\* the lexer's output vector is not grown beyond this many tokens
MaxTokens == 10
\* longest generated token sequence handed to the parser
MaxParseLen == 3

(***************************************************************************)
(* Characters and their code points (char ordering of Rust is by code      *)
(* point).  ASCII 32..126; the grave accent (96) has no string form here.  *)
(***************************************************************************)
AsciiPrintable ==
    << " ", "!", "\"", "#", "$", "%", "&", "'", "(", ")", "*", "+", ",", "-", ".", "/",
       "0", "1", "2", "3", "4", "5", "6", "7", "8", "9", ":", ";", "<", "=", ">", "?",
       "@", "A", "B", "C", "D", "E", "F", "G", "H", "I", "J", "K", "L", "M", "N", "O",
       "P", "Q", "R", "S", "T", "U", "V", "W", "X", "Y", "Z", "[", "\\", "]", "^", "_",
       "grave",
       "a", "b", "c", "d", "e", "f", "g", "h", "i", "j", "k", "l", "m", "n", "o",
       "p", "q", "r", "s", "t", "u", "v", "w", "x", "y", "z", "{", "|", "}", "~" >>

Chars == {AsciiPrintable[i] : i \in 1..Len(AsciiPrintable)} \cup {"\t", "\n"}

CharCode ==
    [c \in Chars |->
        IF c = "\t" THEN 9
        ELSE IF c = "\n" THEN 10
        ELSE 31 + (CHOOSE i \in 1..Len(AsciiPrintable) : AsciiPrintable[i] = c)]

\* a Rust range pattern lo..=hi on chars
InCharRange(c, lo, hi) == CharCode[lo] <= CharCode[c] /\ CharCode[c] <= CharCode[hi]

\* char::is_digit(10), as a predicate value over the characters
is_digit == [c \in Chars |-> InCharRange(c, "0", "9")]

\* char::is_alphanumeric, on the ASCII characters of the model
is_alphanumeric ==
    [c \in Chars |->
        \/ InCharRange(c, "A", "Z")
        \/ InCharRange(c, "a", "z")
        \/ InCharRange(c, "0", "9")]

\* the closure |c| c != '"' of parse_string
not_quote == [c \in Chars |-> c # "\""]

(***************************************************************************)
(* Tokens and lexing errors (lexer.rs, enum Token, enum LexingError).      *)
(***************************************************************************)
Let == [type |-> "Let"]
Function == [type |-> "Function"]
Identifier(s) == [type |-> "Identifier", text |-> s]
String(s) == [type |-> "String", text |-> s]
Number(s) == [type |-> "Number", text |-> s]
Whitespace == [type |-> "Whitespace"]
NewLine == [type |-> "NewLine"]
Equals == [type |-> "Equals"]
Plus == [type |-> "Plus"]
SemiColon == [type |-> "SemiColon"]
EOF == [type |-> "EOF"]

UnexpectedCharacter(e, a) == [kind |-> "UnexpectedCharacter", expected |-> e, actual |-> a]
InvalidChar(c) == [kind |-> "InvalidChar", ch |-> c]
UnexpectedEndOfInput == [kind |-> "UnexpectedEndOfInput"]

\* Result of one lexing routine, with the iterator position it leaves behind
Ok(v, p) == [ok |-> TRUE, val |-> v, pos |-> p]
Err(e, p) == [ok |-> FALSE, val |-> e, pos |-> p]

\* Result of the whole lex call
Running == [tag |-> "Running"]
LexOk(ts) == [tag |-> "Ok", tokens |-> ts]
LexErr(e) == [tag |-> "Err", err |-> e]

(***************************************************************************)
(* Lexing routines.  Each takes the text and the iterator position.        *)
(***************************************************************************)
\* take_while: next_if(predicate) until it yields None
take_while(inp, p, predicate) ==
    LET stop[i \in p..Len(inp)] ==
            IF i < Len(inp) /\ predicate[inp[i + 1]] THEN stop[i + 1] ELSE i
    IN  [output |-> SubSeq(inp, p + 1, stop[p]), pos |-> stop[p]]

\* stringify: collects the chars into a String
stringify(chars) == chars

consume(inp, p, token) == Ok(token, IF p < Len(inp) THEN p + 1 ELSE p)

expect_next(inp, p, expected_char) ==
    IF p < Len(inp)
    THEN IF inp[p + 1] = expected_char
         THEN Ok(<<>>, p + 1)
         ELSE Err(UnexpectedCharacter(expected_char, inp[p + 1]), p + 1)
    ELSE Err(UnexpectedEndOfInput, p)

\* parse_string accepting the end of input as the end of the literal
parse_string_lenient(inp, p) ==
    LET open == expect_next(inp, p, "\"")
    IN  IF ~open.ok THEN open
        ELSE LET string_contents == take_while(inp, open.pos, not_quote)
                 res == String(stringify(string_contents.output))
                 close == expect_next(inp, string_contents.pos, "\"")
             IN  Ok(res, close.pos)

\* parse_string peeking at the closing quote instead of consuming it
parse_string_keep_quote(inp, p) ==
    LET open == expect_next(inp, p, "\"")
    IN  IF ~open.ok THEN open
        ELSE LET string_contents == take_while(inp, open.pos, not_quote)
                 res == String(stringify(string_contents.output))
                 close == expect_next(inp, string_contents.pos, "\"")
             IN  IF close.ok THEN Ok(res, string_contents.pos) ELSE close

parse_string(inp, p) ==
    LET open == expect_next(inp, p, "\"")
    IN  IF ~open.ok THEN open
        ELSE LET string_contents == take_while(inp, open.pos, not_quote)
                 res == String(stringify(string_contents.output))
                 close == expect_next(inp, string_contents.pos, "\"")
             IN  IF close.ok THEN Ok(res, close.pos) ELSE close

is_digit_or_dot == [c \in Chars |-> is_digit[c] \/ c = "."]

\* parse_number taking every dot of the literal
parse_number_greedy(inp, p) ==
    LET num == take_while(inp, p, is_digit_or_dot)
    IN  IF num.output = <<>>
        THEN Err(UnexpectedEndOfInput, num.pos)
        ELSE Ok(Number(stringify(num.output)), num.pos)

\* parse_number refusing a literal that ends in its dot
parse_number_strict(inp, p) ==
    LET int_part == take_while(inp, p, is_digit)
        has_dot == int_part.pos < Len(inp) /\ inp[int_part.pos + 1] = "."
        frac_part == take_while(inp, int_part.pos + 1, is_digit)
        num_contents == IF has_dot
                        THEN int_part.output \o <<".">> \o frac_part.output
                        ELSE int_part.output
        end == IF has_dot THEN frac_part.pos ELSE int_part.pos
    IN  IF num_contents = <<>> \/ (has_dot /\ frac_part.output = <<>>)
        THEN Err(UnexpectedEndOfInput, end)
        ELSE Ok(Number(stringify(num_contents)), end)

parse_number(inp, p) ==
    LET int_part == take_while(inp, p, is_digit)
        has_dot == int_part.pos < Len(inp) /\ inp[int_part.pos + 1] = "."
        frac_part == take_while(inp, int_part.pos + 1, is_digit)
        num_contents == IF has_dot
                        THEN int_part.output \o <<".">> \o frac_part.output
                        ELSE int_part.output
        end == IF has_dot THEN frac_part.pos ELSE int_part.pos
    IN  IF num_contents = <<>>
        THEN Err(UnexpectedEndOfInput, end)
        ELSE Ok(Number(stringify(num_contents)), end)

\* parse_identifier_or_keyword matching a keyword at the start of the word
parse_identifier_or_keyword_prefix(inp, p) ==
    LET identifier_or_keyword == take_while(inp, p, is_alphanumeric)
        name == stringify(identifier_or_keyword.output)
        token == IF Len(name) >= 3 /\ SubSeq(name, 1, 3) = <<"l", "e", "t">> THEN Let
                 ELSE IF Len(name) >= 8
                         /\ SubSeq(name, 1, 8) = <<"f", "u", "n", "c", "t", "i", "o", "n">>
                      THEN Function
                 ELSE Identifier(name)
    IN  Ok(token, identifier_or_keyword.pos)

parse_identifier_or_keyword(inp, p) ==
    LET identifier_or_keyword == take_while(inp, p, is_alphanumeric)
        name == stringify(identifier_or_keyword.output)
        token == IF name = <<"l", "e", "t">> THEN Let
                 ELSE IF name = <<"f", "u", "n", "c", "t", "i", "o", "n">> THEN Function
                 ELSE Identifier(name)
    IN  Ok(token, identifier_or_keyword.pos)

is_space == [c \in Chars |-> c = " " \/ c = "\t"]

\* parse_next_token taking a whole run of spaces and tabs as one Whitespace
parse_next_token_merge_spaces(inp, p) ==
    IF p >= Len(inp) THEN Ok(EOF, p)
    ELSE LET next_char == inp[p + 1]
         IN  IF next_char = " " THEN Ok(Whitespace, take_while(inp, p, is_space).pos)
             ELSE IF next_char = "\t" THEN Ok(Whitespace, take_while(inp, p, is_space).pos)
             ELSE IF next_char = "=" THEN consume(inp, p, Equals)
             ELSE IF next_char = "+" THEN consume(inp, p, Plus)
             ELSE IF next_char = "\n" THEN consume(inp, p, NewLine)
             ELSE IF next_char = ";" THEN consume(inp, p, SemiColon)
             ELSE IF next_char = "\"" THEN parse_string(inp, p)
             ELSE IF InCharRange(next_char, "0", "9") THEN parse_number(inp, p)
             ELSE IF InCharRange(next_char, "A", "z") THEN parse_identifier_or_keyword(inp, p)
             ELSE Err(InvalidChar(next_char), p)

\* parse_next_token skipping a character it does not know
parse_next_token_skip_unknown(inp, p) ==
    IF p >= Len(inp) THEN Ok(EOF, p)
    ELSE LET next_char == inp[p + 1]
         IN  IF next_char = " " THEN consume(inp, p, Whitespace)
             ELSE IF next_char = "\t" THEN consume(inp, p, Whitespace)
             ELSE IF next_char = "=" THEN consume(inp, p, Equals)
             ELSE IF next_char = "+" THEN consume(inp, p, Plus)
             ELSE IF next_char = "\n" THEN consume(inp, p, NewLine)
             ELSE IF next_char = ";" THEN consume(inp, p, SemiColon)
             ELSE IF next_char = "\"" THEN parse_string(inp, p)
             ELSE IF InCharRange(next_char, "0", "9") THEN parse_number(inp, p)
             ELSE IF InCharRange(next_char, "A", "z") THEN parse_identifier_or_keyword(inp, p)
             ELSE consume(inp, p, Whitespace)

parse_next_token(inp, p) ==
    IF p >= Len(inp) THEN Ok(EOF, p)
    ELSE LET next_char == inp[p + 1]
         IN  IF next_char = " " THEN consume(inp, p, Whitespace)
             ELSE IF next_char = "\t" THEN consume(inp, p, Whitespace)
             ELSE IF next_char = "=" THEN consume(inp, p, Equals)
             ELSE IF next_char = "+" THEN consume(inp, p, Plus)
             ELSE IF next_char = "\n" THEN consume(inp, p, NewLine)
             ELSE IF next_char = ";" THEN consume(inp, p, SemiColon)
             ELSE IF next_char = "\"" THEN parse_string(inp, p)
             ELSE IF InCharRange(next_char, "0", "9") THEN parse_number(inp, p)
             ELSE IF InCharRange(next_char, "A", "z") THEN parse_identifier_or_keyword(inp, p)
             ELSE Err(InvalidChar(next_char), p)

(***************************************************************************)
(* Source texts the lexer is run on: every concatenation of at most        *)
(* MaxFragments fragments, and the inputs of the unit tests of lexer.rs.   *)
(***************************************************************************)
Fragments ==
    { <<" ">>, <<"\n">>, <<"=">>, <<"\"">>, <<"1">>, <<".">>, <<"s">>,
      <<"l", "e", "t">>, <<"f", "u", "n", "c", "t", "i", "o", "n">>,
      <<"_">>, <<"-">> }

RECURSIVE Flatten(_)
Flatten(ss) == IF ss = <<>> THEN <<>> ELSE Head(ss) \o Flatten(Tail(ss))

\* the fragment lists whose concatenations are the generated texts
FragmentLists == UNION { [1..n -> Fragments] : n \in 0..MaxFragments }

TestInputs ==
    { <<>>,
      <<" ", "\t">>,
      <<"\"", "w", "o", "w", "\"", " ", "\"", "t", "h", "i", "s", "\"", " ",
        "\"", "s", "t", "r", "i", "n", "g", "\"">>,
      <<"\"", "w", "o", "w", " ", "t", "h", "i", "s", " ", "i", "s", " ", "a", " ",
        "s", "t", "r", "i", "n", "g">>,
      <<"1", " ", "2", " ", "3", " ", "4", "5">>,
      <<"1", ".", "2", "1">>,
      <<"1", ".", "1", ".", "1">>,
      <<"l", "e", "t", " ", "s", "o", "m", "e", "V", "a", "l", "u", "e", " ", "=", " ",
        "1", "0", ";">> }

\* further texts: the remaining dispatch arms and near-keywords
ProbeInputs ==
    { <<"1", "+", "2", ";">>,
      <<"L", "e", "t">>,
      <<"l", "e", "t", "t", "e", "r">>,
      <<"f", "u", "n", "c", "t", "i", "o", "n", "s">>,
      <<"\"", "\"", "\"", "a", "\\", "n", "\t", " ", "-", "\n", "\"", "x">>,
      <<"a", "[", "0", "]">>,
      <<"x", "^", "2">>,
      <<" ", " ", "\n", "\n", "\"", " ", "\n", "\"", "\t", " ">>,
      <<"2", "1", "4", "7", "4", "8", "3", "6", "4", "7">>,
      <<"2", "1", "4", "7", "4", "8", "3", "6", "4", "8">>,
      <<"0", "0", "0", "0", "0", "0", "0", "0", "0", "0", "4", "2">>,
      <<"9", "9", "9", "9", "9", "9", "9", "9", "9", "9", "9", "9">>,
      <<"7", " ", "3", "0", "0", "0", "0", "0", "0", "0", "0", "0">> }


(***************************************************************************)
(* lex: the loop of lexer.rs lines 28-44, one action per match arm.        *)
(***************************************************************************)
LexInit ==
    /\ \/ \E f \in FragmentLists : input = Flatten(f)
       \/ input \in TestInputs \cup ProbeInputs
    /\ pos = 0
    /\ output = <<>>
    /\ lexResult = Running
    /\ tokens = <<>>
    /\ current = 0
    /\ exprs = <<>>
    /\ parseResult = Running

\* Err(err) => return Err(err): the output vector is dropped
LexFail ==
    /\ lexResult = Running
    /\ LET r == parse_next_token(input, pos)
       IN  /\ ~r.ok
           /\ pos' = r.pos
           /\ output' = <<>>
           /\ lexResult' = LexErr(r.val)
    /\ UNCHANGED <<input, parseVars>>

\* LexEOF returning the vector without the EOF marker
LexEOF_NoMarker ==
    /\ lexResult = Running
    /\ LET r == parse_next_token(input, pos)
       IN  /\ r.ok
           /\ r.val = EOF
           /\ pos' = r.pos
           /\ output' = output
           /\ lexResult' = LexOk(output)
    /\ UNCHANGED <<input, parseVars>>

\* Ok(Token::EOF) => push EOF, break, return Ok(output)
LexEOF ==
    /\ lexResult = Running
    /\ LET r == parse_next_token(input, pos)
       IN  /\ r.ok
           /\ r.val = EOF
           /\ pos' = r.pos
           /\ output' = Append(output, EOF)
           /\ lexResult' = LexOk(Append(output, EOF))
    /\ UNCHANGED <<input, parseVars>>

\* Ok(token) => output.push(token)
LexPush ==
    /\ lexResult = Running
    /\ Len(output) < MaxTokens
    /\ LET r == parse_next_token(input, pos)
       IN  /\ r.ok
           /\ r.val # EOF
           /\ pos' = r.pos
           /\ output' = Append(output, r.val)
    /\ UNCHANGED <<input, lexResult, parseVars>>

LexNext == LexFail \/ LexEOF \/ LexPush

SpecLex == LexInit /\ [][LexNext]_vars

(***************************************************************************)
(* Parser (parser.rs): expressions, errors and str::parse::<i32>.          *)
(***************************************************************************)
I32Max == 2147483647
I32Min == -I32Max - 1

Integer(n) == [type |-> "Integer", value |-> n]
Value(v) == [type |-> "Value", value |-> v]

NumberValueInvalid == [kind |-> "NumberValueInvalid"]
UnknownError == [kind |-> "UnknownError"]

ParseOk(es) == [tag |-> "Ok", exprs |-> es]
ParseErr(e) == [tag |-> "Err", err |-> e]

\* char::to_digit(10) of an ASCII digit
to_digit(c) == CharCode[c] - CharCode["0"]

\* i32::checked_mul, checked_add, checked_sub: [ok |-> FALSE] on overflow
checked_mul(a, b) ==
    IF a > I32Max \div b \/ a < -(I32Max \div b)
    THEN [ok |-> FALSE] ELSE [ok |-> TRUE, val |-> a * b]

\* an addition that wraps around on overflow (i32::wrapping_add)
wrapping_add(a, d) ==
    IF a > I32Max - d
    THEN [ok |-> TRUE, val |-> I32Min + (d - (I32Max - a) - 1)]
    ELSE [ok |-> TRUE, val |-> a + d]

checked_add(a, d) ==
    IF a > I32Max - d THEN [ok |-> FALSE] ELSE [ok |-> TRUE, val |-> a + d]

checked_sub(a, d) ==
    IF a < I32Min + d THEN [ok |-> FALSE] ELSE [ok |-> TRUE, val |-> a - d]

\* value.parse::<i32>(): optional sign, then at least one digit, each step
\* a checked multiply by ten and a checked add (or subtract when negative)
parse_i32(src) ==
    IF src = <<>> THEN [ok |-> FALSE]
    ELSE IF Len(src) = 1 /\ src[1] \in {"+", "-"} THEN [ok |-> FALSE]
    ELSE LET is_positive == src[1] # "-"
             digits == IF src[1] \in {"+", "-"} THEN Tail(src) ELSE src
             acc[i \in 0..Len(digits)] ==
                 IF i = 0 THEN [ok |-> TRUE, val |-> 0]
                 ELSE LET prev == acc[i - 1]
                          c == digits[i]
                      IN  IF ~prev.ok \/ ~is_digit[c] THEN [ok |-> FALSE]
                          ELSE LET mul == checked_mul(prev.val, 10)
                               IN  IF ~mul.ok THEN [ok |-> FALSE]
                                   ELSE IF is_positive
                                        THEN checked_add(mul.val, to_digit(c))
                                        ELSE checked_sub(mul.val, to_digit(c))
         IN  acc[Len(digits)]

\* parse_number_expr inserting the value at the front of the output
parse_number_expr_front(value, cur, out) ==
    LET parsed == parse_i32(value)
    IN  IF ~parsed.ok
        THEN [ok |-> FALSE, err |-> NumberValueInvalid]
        ELSE [ok |-> TRUE, current |-> cur + 1,
              output |-> <<Value(Integer(parsed.val))>> \o out]

\* parse_number_expr stepping over the token after the number as well
parse_number_expr_skip_next(value, cur, out) ==
    LET parsed == parse_i32(value)
    IN  IF ~parsed.ok
        THEN [ok |-> FALSE, err |-> NumberValueInvalid]
        ELSE [ok |-> TRUE, current |-> cur + 2,
              output |-> Append(out, Value(Integer(parsed.val)))]

\* Ok((current + 1, output)) after pushing the value, or NumberValueInvalid
parse_number_expr(value, cur, out) ==
    LET parsed == parse_i32(value)
    IN  IF ~parsed.ok
        THEN [ok |-> FALSE, err |-> NumberValueInvalid]
        ELSE [ok |-> TRUE, current |-> cur + 1,
              output |-> Append(out, Value(Integer(parsed.val)))]

\* parse_next_expr stepping over a token that starts no expression
parse_next_expr_skip(inp, cur, out) ==
    IF cur >= Len(inp) THEN [ok |-> TRUE, current |-> cur, output |-> out]
    ELSE LET token == inp[cur + 1]
         IN  IF token.type = "Number"
             THEN parse_number_expr(token.text, cur, out)
             ELSE [ok |-> TRUE, current |-> cur + 1, output |-> out]

\* parse_next_expr taking the EOF marker as the end of the expressions
parse_next_expr_accept_eof(inp, cur, out) ==
    IF cur >= Len(inp) THEN [ok |-> TRUE, current |-> cur, output |-> out]
    ELSE LET token == inp[cur + 1]
         IN  IF token.type = "Number"
             THEN parse_number_expr(token.text, cur, out)
             ELSE IF token = EOF
                  THEN [ok |-> TRUE, current |-> cur + 1, output |-> out]
                  ELSE [ok |-> FALSE, err |-> UnknownError]

\* input.get(current) is Some(token) whenever current < input.len(), so the
\* None arm of the match is never taken
parse_next_expr(inp, cur, out) ==
    IF cur >= Len(inp) THEN [ok |-> TRUE, current |-> cur, output |-> out]
    ELSE LET token == inp[cur + 1]
         IN  IF token.type = "Number"
             THEN parse_number_expr(token.text, cur, out)
             ELSE [ok |-> FALSE, err |-> UnknownError]

(***************************************************************************)
(* Token sequences the parser is run on.                                   *)
(***************************************************************************)
NumberTexts ==
    { <<"2">>, <<"0", "7">>, <<"-", "5">>, <<"+", "3">>,
      <<"2", "1", "4", "7", "4", "8", "3", "6", "4", "7">>,
      <<"2", "1", "4", "7", "4", "8", "3", "6", "4", "8">>,
      <<"-", "2", "1", "4", "7", "4", "8", "3", "6", "4", "8">>,
      <<"-", "2", "1", "4", "7", "4", "8", "3", "6", "4", "9">>,
      <<"1", ".", "5">>, <<"1", ".">>, <<>>, <<"-">>, <<"1", "a">> }

TokenPool ==
    {Number(t) : t \in NumberTexts}
        \cup {EOF, Whitespace, Let, Plus, Identifier(<<"s">>), String(<<"2">>)}

TokenSeqs == UNION { [1..n -> TokenPool] : n \in 0..MaxParseLen }

(***************************************************************************)
(* parse / parse_recursive: one action per return of parse_recursive.      *)
(***************************************************************************)
ParseInit ==
    /\ tokens \in TokenSeqs
    /\ current = 0
    /\ exprs = <<>>
    /\ parseResult = Running
    /\ input = <<>>
    /\ pos = 0
    /\ output = <<>>
    /\ lexResult = Running

\* current >= tokens.len() => return Ok(output)
ParseReturn ==
    /\ parseResult = Running
    /\ current >= Len(tokens)
    /\ parseResult' = ParseOk(exprs)
    /\ UNCHANGED <<tokens, current, exprs, lexVars>>

\* Err(e) => Err(e)
ParseFail ==
    /\ parseResult = Running
    /\ current < Len(tokens)
    /\ LET r == parse_next_expr(tokens, current, exprs)
       IN  /\ ~r.ok
           /\ parseResult' = ParseErr(r.err)
           /\ exprs' = <<>>
    /\ UNCHANGED <<tokens, current, lexVars>>

\* Ok((next_current, next_output)) => parse_recursive(tokens, next_current, next_output)
ParseRecurse ==
    /\ parseResult = Running
    /\ current < Len(tokens)
    /\ LET r == parse_next_expr(tokens, current, exprs)
       IN  /\ r.ok
           /\ current' = r.current
           /\ exprs' = r.output
    /\ UNCHANGED <<tokens, parseResult, lexVars>>

ParseNext == ParseReturn \/ ParseFail \/ ParseRecurse

SpecParse == ParseInit /\ [][ParseNext]_vars

(***************************************************************************)
(* The front end as a whole.  lex and parse are independent entry points:  *)
(* a run starts with lex called on a source text or with parse called on a *)
(* token sequence, and the token sequence lex returns may be handed to     *)
(* parse (parser.rs takes the Vec<Token> of crate::lexer).                 *)
(***************************************************************************)
Init == LexInit \/ ParseInit

\* parse was called on its own: no lex call is in progress
DirectCall == input = <<>> /\ lexResult = Running

\* parse was called on the tokens lex returned
Fed == lexResult.tag = "Ok" /\ tokens = lexResult.tokens

\* a step of the lex call, while no parse call has been made
LexStep ==
    /\ tokens = <<>>
    /\ parseResult = Running
    /\ LexNext

\* parse(&mut tokens) on the result of lex: parse_recursive(tokens, 0, vec![])
Feed ==
    /\ lexResult.tag = "Ok"
    /\ tokens = <<>>
    /\ parseResult = Running
    /\ tokens' = lexResult.tokens
    /\ current' = 0
    /\ exprs' = <<>>
    /\ UNCHANGED <<lexVars, parseResult>>

\* a step of the parse call
ParseStep ==
    /\ DirectCall \/ Fed
    /\ ParseNext

Next == LexStep \/ Feed \/ ParseStep

Spec == Init /\ [][Next]_vars

(***************************************************************************)
(* Vocabulary of the properties, stated without the lexing routines.       *)
(***************************************************************************)
Quote == "\""
DigitChars == {"0", "1", "2", "3", "4", "5", "6", "7", "8", "9"}
UpperChars == {"A", "B", "C", "D", "E", "F", "G", "H", "I", "J", "K", "L", "M",
               "N", "O", "P", "Q", "R", "S", "T", "U", "V", "W", "X", "Y", "Z"}
LowerChars == {"a", "b", "c", "d", "e", "f", "g", "h", "i", "j", "k", "l", "m",
               "n", "o", "p", "q", "r", "s", "t", "u", "v", "w", "x", "y", "z"}
AlnumChars == UpperChars \cup LowerChars \cup DigitChars
\* the characters of 'A'..='z' that are not letters
RangePunctuation == {"[", "\\", "]", "^", "_", "grave"}
IdentStartChars == UpperChars \cup LowerChars \cup RangePunctuation
SingleCharTokens == {" ", "\t", "\n", "=", "+", ";"}
DispatchRejects(c) ==
    c \notin SingleCharTokens \cup {Quote} \cup DigitChars \cup IdentStartChars

LetWord == <<"l", "e", "t">>
FunctionWord == <<"f", "u", "n", "c", "t", "i", "o", "n">>

AtDispatch == lexResult = Running /\ pos < Len(input)
Peek == input[pos + 1]

(***************************************************************************)
(* C1: every dispatch step that returns neither EOF nor an error consumes  *)
(* at least one character of the input, so tokenize cannot loop forever.   *)
(* The code breaks it on '[', '\', ']', '^', '_' (and the grave accent).   *)
(***************************************************************************)
C1_EveryPushConsumes ==
    [][(lexResult = Running /\ lexResult' = Running) => pos' > pos]_vars

(***************************************************************************)
(* C2: a successful tokenize returns a non-empty sequence whose last       *)
(* element is EOF and that has no EOF before it; the empty text gives      *)
(* exactly [EOF].                                                          *)
(***************************************************************************)
C2_ExactlyOneEOFLast ==
    lexResult.tag = "Ok" =>
        LET ts == lexResult.tokens
        IN  /\ Len(ts) >= 1
            /\ ts[Len(ts)] = EOF
            /\ \A i \in 1..(Len(ts) - 1) : ts[i] # EOF
            /\ (input = <<>> => ts = <<EOF>>)

C2_Witness ==
    /\ lexResult.tag = "Ok"
    /\ Len(lexResult.tokens) >= 3
    /\ Len(input) >= 2

(***************************************************************************)
(* C3: every Number token of a successful tokenize has a text of the form  *)
(* digits or digits.digits, with at least one digit on each side of the    *)
(* dot.  The code breaks it on "1.".                                       *)
(***************************************************************************)
AllDigits(t) == \A i \in 1..Len(t) : t[i] \in DigitChars

WellFormedNumberText(t) ==
    \/ Len(t) >= 1 /\ AllDigits(t)
    \/ \E k \in 2..(Len(t) - 1) :
          /\ t[k] = "."
          /\ AllDigits(SubSeq(t, 1, k - 1))
          /\ AllDigits(SubSeq(t, k + 1, Len(t)))

C3_NumberTextWellFormed ==
    lexResult.tag = "Ok" =>
        \A i \in 1..Len(lexResult.tokens) :
            lexResult.tokens[i].type = "Number"
                => WellFormedNumberText(lexResult.tokens[i].text)

(***************************************************************************)
(* Decimal texts, read without the parser's conversion routine.            *)
(***************************************************************************)
DigitSeq == <<"0", "1", "2", "3", "4", "5", "6", "7", "8", "9">>
DigitValue(c) == (CHOOSE k \in 1..10 : DigitSeq[k] = c) - 1

I32MaxDigits == <<"2", "1", "4", "7", "4", "8", "3", "6", "4", "7">>
I32MinDigits == <<"2", "1", "4", "7", "4", "8", "3", "6", "4", "8">>

HasSign(t) == Len(t) >= 1 /\ t[1] \in {"+", "-"}
IsNegative(t) == Len(t) >= 1 /\ t[1] = "-"
Body(t) == IF HasSign(t) THEN Tail(t) ELSE t

RECURSIVE StripZeros(_)
StripZeros(ds) ==
    IF Len(ds) > 1 /\ ds[1] = "0" THEN StripZeros(Tail(ds)) ELSE ds

\* ds <= lim as decimal numerals without leading zeros
NumeralLeq(ds, lim) ==
    \/ Len(ds) < Len(lim)
    \/ /\ Len(ds) = Len(lim)
       /\ \/ ds = lim
          \/ \E k \in 1..Len(ds) :
                /\ \A j \in 1..(k - 1) : ds[j] = lim[j]
                /\ DigitValue(ds[k]) < DigitValue(lim[k])

\* the text is an optionally signed decimal numeral within -2^31 .. 2^31-1
ValidInt32Text(t) ==
    /\ Body(t) # <<>>
    /\ AllDigits(Body(t))
    /\ NumeralLeq(StripZeros(Body(t)), IF IsNegative(t) THEN I32MinDigits ELSE I32MaxDigits)

RECURSIVE Pow10(_)
Pow10(n) == IF n = 0 THEN 1 ELSE 10 * Pow10(n - 1)

\* the integer a valid text denotes: the signed sum of digit * 10^place
TextValue(t) ==
    LET ds == StripZeros(Body(t))
        n == Len(ds)
        sign == IF IsNegative(t) THEN -1 ELSE 1
        sum[i \in 0..n] ==
            IF i = 0 THEN 0
            ELSE sum[i - 1] + sign * DigitValue(ds[i]) * Pow10(n - i)
    IN  sum[n]

GoodNumber(tok) == tok.type = "Number" /\ ValidInt32Text(tok.text)
BadIndexes == {i \in 1..Len(tokens) : ~GoodNumber(tokens[i])}
FirstBad == CHOOSE i \in BadIndexes : \A j \in BadIndexes : i <= j

(***************************************************************************)
(* C4: parse of a token sequence made only of Number tokens whose text is  *)
(* a valid signed 32-bit integer returns Ok with one Value{Integer(n_i)}   *)
(* per token, in order, n_i the value of the i-th text; the accumulator    *)
(* holds the values of the tokens before the cursor on the way.            *)
(***************************************************************************)
C4_NumbersParseInOrder ==
    BadIndexes = {} =>
        /\ parseResult.tag # "Err"
        /\ exprs = [i \in 1..current |-> Value(Integer(TextValue(tokens[i].text)))]
        /\ parseResult.tag = "Ok" =>
              parseResult.exprs =
                  [i \in 1..Len(tokens) |-> Value(Integer(TextValue(tokens[i].text)))]

C4_Witness ==
    /\ BadIndexes = {}
    /\ parseResult.tag = "Ok"
    /\ Len(parseResult.exprs) >= 3
    /\ parseResult.exprs[1] # parseResult.exprs[2]
    /\ \E i \in 1..Len(tokens) : IsNegative(tokens[i].text)

(***************************************************************************)
(* C5: the first token, left to right, that is not a Number with a valid   *)
(* 32-bit integer text decides the result whatever follows it:             *)
(* UnknownError when it is not a Number, NumberValueInvalid when it is a   *)
(* Number; the result carries no expressions and parse never returns Ok.   *)
(***************************************************************************)
C5_FirstBadTokenDecides ==
    BadIndexes # {} =>
        /\ parseResult.tag # "Ok"
        /\ current < FirstBad
        /\ parseResult.tag = "Err" =>
              parseResult =
                  IF tokens[FirstBad].type # "Number"
                  THEN ParseErr(UnknownError)
                  ELSE ParseErr(NumberValueInvalid)

C5_Witness ==
    /\ parseResult = ParseErr(NumberValueInvalid)
    /\ FirstBad = 2
    /\ Len(tokens) = 3
    /\ tokens[3].type # "Number"

(***************************************************************************)
(* C6: a character at a dispatch position that the dispatch table does not *)
(* know makes the whole call fail with InvalidChar of exactly that         *)
(* character, with no token returned; an InvalidChar result always names   *)
(* the character the scan stopped at.                                      *)
(***************************************************************************)
C6_UnknownCharFails ==
    /\ [][(AtDispatch /\ DispatchRejects(Peek))
            => (lexResult' = LexErr(InvalidChar(Peek)) /\ output' = <<>>)]_vars
    /\ [](lexResult.tag = "Err" /\ lexResult.err.kind = "InvalidChar"
            => /\ pos < Len(input)
               /\ lexResult.err = InvalidChar(input[pos + 1])
               /\ DispatchRejects(input[pos + 1]))

C6_Witness ==
    /\ lexResult = LexErr(InvalidChar("-"))
    /\ pos >= 2
    /\ pos + 1 < Len(input)

(***************************************************************************)
(* C7: an opening quote at a dispatch position with no quote after it      *)
(* makes the whole call fail with UnexpectedEndOfInput, no token returned, *)
(* whatever follows the opening quote.                                     *)
(***************************************************************************)
NoQuoteAfter(p) == \A i \in (p + 1)..Len(input) : input[i] # Quote

C7_UnterminatedStringFails ==
    [][(AtDispatch /\ Peek = Quote /\ NoQuoteAfter(pos + 1))
         => (lexResult' = LexErr(UnexpectedEndOfInput) /\ output' = <<>>)]_vars

C7_Witness ==
    /\ lexResult = LexErr(UnexpectedEndOfInput)
    /\ \E q \in 2..(Len(input) - 2) :
          /\ input[q] = Quote
          /\ NoQuoteAfter(q)
          /\ \E i \in (q + 1)..Len(input) : DispatchRejects(input[i])

(***************************************************************************)
(* C8: at digits '.' digits '.', the number routine yields the Number up   *)
(* to the second dot and leaves that dot unconsumed; the dispatch that     *)
(* then sees it fails the whole call with InvalidChar('.').                *)
(***************************************************************************)
\* from position p: a digits, a dot, b digits, a dot
DottedTwice(p, a, b) ==
    /\ a >= 1 /\ b >= 1
    /\ p + a + b + 2 <= Len(input)
    /\ AllDigits(SubSeq(input, p + 1, p + a))
    /\ input[p + a + 1] = "."
    /\ AllDigits(SubSeq(input, p + a + 2, p + a + b + 1))
    /\ input[p + a + b + 2] = "."

LastIsFloatBeforeDot ==
    /\ AtDispatch
    /\ Peek = "."
    /\ output # <<>>
    /\ output[Len(output)].type = "Number"
    /\ \E k \in 1..(Len(output[Len(output)].text) - 1) : output[Len(output)].text[k] = "."

C8_SecondDotNotConsumed ==
    /\ [][\A a, b \in 1..Len(input) :
            (lexResult = Running /\ DottedTwice(pos, a, b))
                => /\ pos' = pos + a + b + 1
                   /\ output' = Append(output, Number(SubSeq(input, pos + 1, pos + a + b + 1)))
                   /\ lexResult' = Running]_vars
    /\ [][LastIsFloatBeforeDot
            => (lexResult' = LexErr(InvalidChar(".")) /\ output' = <<>>)]_vars

C8_Witness ==
    /\ lexResult = LexErr(InvalidChar("."))
    /\ \E p \in 0..Len(input) : \E a, b \in 1..Len(input) :
          DottedTwice(p, a, b) /\ pos = p + a + b + 1

(***************************************************************************)
(* C9: the identifier-or-keyword routine consumes the maximal run of       *)
(* alphanumeric characters and yields Let exactly for the run "let",       *)
(* Function exactly for "function", Identifier(run) for any other run.     *)
(***************************************************************************)
\* length of the longest run of alphanumeric characters starting after p
AlnumRunLen(p) ==
    CHOOSE n \in 0..(Len(input) - p) :
        /\ \A i \in (p + 1)..(p + n) : input[i] \in AlnumChars
        /\ (p + n = Len(input) \/ input[p + n + 1] \notin AlnumChars)

WordToken(run) ==
    IF run = LetWord THEN Let
    ELSE IF run = FunctionWord THEN Function
    ELSE Identifier(run)

C9_KeywordsByExactMatch ==
    [][(AtDispatch /\ Peek \in IdentStartChars)
         => LET n == AlnumRunLen(pos)
            IN  /\ pos' = pos + n
                /\ output' = Append(output, WordToken(SubSeq(input, pos + 1, pos + n)))
                /\ lexResult' = Running]_vars

C9_Witness ==
    /\ \E i \in 1..Len(output) :
          /\ output[i].type = "Identifier"
          /\ Len(output[i].text) > 3
          /\ SubSeq(output[i].text, 1, 3) = LetWord
    /\ \E i \in 1..Len(output) : output[i] = Let

(***************************************************************************)
(* C10: a string literal yields String(text), text being exactly the       *)
(* characters between the opening quote and the next quote, kept as they   *)
(* are; text holds no quote and the scan resumes after the closing quote.  *)
(***************************************************************************)
\* position of the first quote after position p (p is the opening quote)
NextQuote(p) ==
    CHOOSE q \in (p + 1)..Len(input) :
        input[q] = Quote /\ \A i \in (p + 1)..(q - 1) : input[i] # Quote

C10_StringVerbatim ==
    [][(AtDispatch /\ Peek = Quote /\ ~NoQuoteAfter(pos + 1))
         => LET q == NextQuote(pos + 1)
                text == [i \in 1..(q - pos - 2) |-> input[pos + 1 + i]]
            IN  /\ pos' = q
                /\ output' = Append(output, String(text))
                /\ \A i \in 1..Len(text) : text[i] # Quote
                /\ lexResult' = Running]_vars

C10_Witness ==
    /\ \E i \in 1..(Len(output) - 1) :
          /\ output[i].type = "String"
          /\ \E k \in 1..Len(output[i].text) : DispatchRejects(output[i].text[k])
          /\ \E k \in 1..Len(output[i].text) : output[i].text[k] \in {" ", "\n"}
    /\ \E i \in 1..Len(output) : output[i] = String(<<>>)

(***************************************************************************)
(* C11: in a successful tokenize result the Whitespace and NewLine tokens, *)
(* in order, are exactly the spaces, tabs and newlines of the source that  *)
(* lie outside string literals, in order: one token per character, none    *)
(* dropped and none merged.                                                *)
(***************************************************************************)
LayoutChars == {" ", "\t", "\n"}

\* number of quotes among the first n characters of the source
QuotesBefore(n) == Cardinality({i \in 1..n : input[i] = Quote})

\* the character at position i is neither a delimiter nor inside a literal
OutsideString(i) == input[i] # Quote /\ QuotesBefore(i - 1) % 2 = 0

LayoutTokenOf(c) == IF c = "\n" THEN NewLine ELSE Whitespace

\* the layout tokens the source calls for, in source order
ExpectedLayout ==
    LET acc[i \in 0..Len(input)] ==
            IF i = 0 THEN <<>>
            ELSE IF input[i] \in LayoutChars /\ OutsideString(i)
                 THEN Append(acc[i - 1], LayoutTokenOf(input[i]))
                 ELSE acc[i - 1]
    IN  acc[Len(input)]

\* the layout tokens of a token sequence, in order
LayoutOf(ts) ==
    LET acc[i \in 0..Len(ts)] ==
            IF i = 0 THEN <<>>
            ELSE IF ts[i] \in {Whitespace, NewLine}
                 THEN Append(acc[i - 1], ts[i])
                 ELSE acc[i - 1]
    IN  acc[Len(ts)]

C11_LayoutPreserved ==
    lexResult.tag = "Ok" => LayoutOf(lexResult.tokens) = ExpectedLayout

C11_Witness ==
    /\ lexResult.tag = "Ok"
    /\ \E i \in 1..(Len(lexResult.tokens) - 1) :
          lexResult.tokens[i] = Whitespace /\ lexResult.tokens[i + 1] = Whitespace
    /\ \E i \in 1..(Len(lexResult.tokens) - 1) :
          lexResult.tokens[i] = NewLine /\ lexResult.tokens[i + 1] = NewLine
    /\ \E i \in 1..Len(lexResult.tokens) :
          /\ lexResult.tokens[i].type = "String"
          /\ \E k \in 1..Len(lexResult.tokens[i].text) :
                lexResult.tokens[i].text[k] \in LayoutChars

(***************************************************************************)
(* C12: numeric interpretation is left to the parser.  The lexer emits     *)
(* Number(text) with the digits of the source as they are, whatever their  *)
(* magnitude; parse fails with NumberValueInvalid on a digit text above    *)
(* 2147483647 and yields Value{Integer(n)}, n the value of the text, on a  *)
(* digit text within range.                                                *)
(***************************************************************************)
\* length of the longest run of digits starting after position p
DigitRunLen(p) ==
    CHOOSE n \in 0..(Len(input) - p) :
        /\ \A i \in (p + 1)..(p + n) : input[i] \in DigitChars
        /\ (p + n = Len(input) \/ input[p + n + 1] \notin DigitChars)

DigitText(t) == t # <<>> /\ AllDigits(t)

C12_NumbersReadByParser ==
    /\ [][(AtDispatch /\ Peek \in DigitChars)
            => LET n == DigitRunLen(pos)
               IN  /\ lexResult' = Running
                   /\ pos' >= pos + n
                   /\ output' = Append(output, Number(SubSeq(input, pos + 1, pos')))
                   /\ (pos + n = Len(input) \/ input[pos + n + 1] # ".") => pos' = pos + n]_vars
    /\ [][(/\ parseResult = Running
           /\ current < Len(tokens)
           /\ tokens[current + 1].type = "Number"
           /\ DigitText(tokens[current + 1].text))
            => LET t == tokens[current + 1].text
               IN  IF NumeralLeq(StripZeros(t), I32MaxDigits)
                   THEN /\ parseResult' = Running
                        /\ current' = current + 1
                        /\ exprs' = Append(exprs, Value(Integer(TextValue(t))))
                   ELSE parseResult' = ParseErr(NumberValueInvalid)]_vars

C12_Witness ==
    /\ Fed
    /\ input = I32MinDigits
    /\ tokens = <<Number(I32MinDigits), EOF>>
    /\ parseResult = ParseErr(NumberValueInvalid)

(***************************************************************************)
(* C13: parse called on the token sequence that tokenize returned never    *)
(* returns an expression sequence: the cursor never gets past the final    *)
(* EOF and the call ends in UnknownError or NumberValueInvalid.            *)
(***************************************************************************)
C13_PipelineNeverSucceeds ==
    Fed =>
        /\ parseResult.tag # "Ok"
        /\ current < Len(tokens)
        /\ parseResult.tag = "Err"
              => parseResult \in {ParseErr(UnknownError), ParseErr(NumberValueInvalid)}

C13_Witness ==
    /\ Fed
    /\ parseResult = ParseErr(UnknownError)
    /\ current >= 1
    /\ current + 1 = Len(tokens)
    /\ tokens[current + 1] = EOF

(***************************************************************************)
(* C14: in every state of a tokenize scan, every Identifier token of the   *)
(* output accumulator has a non-empty text of alphanumeric characters that *)
(* is neither "let" nor "function".  The code breaks it on '_' and the     *)
(* other non-letters of 'A'..='z', which give Identifier("").              *)
(***************************************************************************)
C14_IdentifiersAreWords ==
    \A i \in 1..Len(output) :
        output[i].type = "Identifier" =>
            /\ output[i].text # <<>>
            /\ \A k \in 1..Len(output[i].text) : output[i].text[k] \in AlnumChars
            /\ output[i].text \notin {LetWord, FunctionWord}

(***************************************************************************)
(* C15: tokenize fails only with InvalidChar of a character the dispatch   *)
(* rejects or with UnexpectedEndOfInput of a string literal that is never  *)
(* closed: never with UnexpectedCharacter, and never from the number       *)
(* routine.                                                                *)
(***************************************************************************)
C15_OnlyTwoErrors ==
    [][lexResult'.tag = "Err"
         => /\ AtDispatch
            /\ \/ /\ DispatchRejects(Peek)
                  /\ lexResult' = LexErr(InvalidChar(Peek))
               \/ /\ Peek = Quote
                  /\ NoQuoteAfter(pos + 1)
                  /\ lexResult' = LexErr(UnexpectedEndOfInput)]_vars

C15_Witness ==
    /\ lexResult = LexErr(UnexpectedEndOfInput)
    /\ Len(input) >= 3
    /\ input[1] \in DigitChars
    /\ input[2] = "."
    /\ input[3] = Quote

(***************************************************************************)
(* C16: a parse run starts with the cursor at 0; every accepted Number     *)
(* token appends one expression and moves the cursor by one, so while the  *)
(* run has not failed the accumulator is as long as the cursor, the cursor *)
(* is at most the length of the token sequence, and parse returns Ok only  *)
(* with the cursor at the end.                                             *)
(***************************************************************************)
C16_CursorCountsExpressions ==
    /\ [](parseResult.tag # "Err"
            => /\ Len(exprs) = current
               /\ current <= Len(tokens))
    /\ [](parseResult.tag = "Ok"
            => /\ current = Len(tokens)
               /\ Len(parseResult.exprs) = current)
    /\ [][(parseResult = Running /\ parseResult' = Running)
            => /\ tokens[current + 1].type = "Number"
               /\ current' = current + 1
               /\ Len(exprs') = Len(exprs) + 1]_vars

C16_Witness ==
    /\ parseResult = Running
    /\ Len(tokens) = 3
    /\ current = 2
    /\ Len(exprs) = 2

=============================================================================
